---- MODULE Spec2Model ----
(***************************************************************************)
(* The voice pipeline of minichain: AudioSource (capture thread),          *)
(* AudioSink (playback thread), the VoicePipeline orchestrator loop and    *)
(* the utterance-processing threads it spawns.                             *)
(*                                                                         *)
(* Time is a discrete clock `now`; one tick is the duration of one audio   *)
(* frame, so a running capture thread completes one device read per tick.  *)
(* Every thread is a small program counter; one action is one statement    *)
(* (or one run of statements that touch no shared state).                  *)
(***************************************************************************)
EXTENDS Integers, Sequences, FiniteSets, TLC

\* ---------------------------------------------------------------- bounds
MaxTime == 7        \* the clock stops at this tick
MaxQueue == 1       \* the orchestrator is at most this many frames behind
MaxTasks == 2       \* processing threads spawned in one run
MaxChunks == 1      \* audio chunks one TTS stream yields
MaxPlay == 4        \* chunks a direct client of the sink enqueues
MaxLen == 962       \* bytes in a frame given to the VAD
MaxBacklog == 2     \* frames the owner of a bare AudioSource is behind

\* ------------------------------------------------- program constants
\* VoicePipeline.__init__ defaults (0.8 s and 20 s), scaled down to ticks.
DefaultEndOfSpeechTimeout == 1
DefaultMaxPhraseDuration == 2
\* self._processing_thread.join(timeout=0.5)
InterruptJoinTimeout == 1
\* audio.py: the sample rate and the channel count.
RATE == 16000
CHANNELS == 1
\* vad/webrtc.py: bytes per sample, and the frame lengths the VAD takes.
SAMPLE_WIDTH == 2
FRAMES_PER_10_MS == RATE \div 100
BYTES_PER_10_MS == FRAMES_PER_10_MS * SAMPLE_WIDTH * CHANNELS

\* ------------------------------------------------------------ variables
VARIABLES
    now,                    \* time.time()
    \* --- VoicePipeline fields
    state,                  \* self.state
    conversation_history,   \* self.conversation_history
    audio_queue,            \* self._audio_queue (the frame channel)
    running,                \* self._running
    processing_thread,      \* self._processing_thread (0: None)
    end_of_speech_timeout,  \* self.end_of_speech_timeout
    max_phrase_duration,    \* self.max_phrase_duration
    mpc,                    \* the caller of start()/stop()
    \* --- _pipeline_loop locals
    opc,                    \* position of the orchestrator thread
    chunk,                  \* the frame being handled
    voice_buffer,
    speech_started_at,
    silence_started_at,
    join_started,           \* when the bounded wait of line 52 began
    \* --- processing threads
    tasks,                  \* id -> the thread's position and locals
    \* --- AudioSource
    cpc,                    \* position of the capture thread
    src_running,            \* AudioSource._running
    in_stream,              \* AudioSource._stream
    feed,                   \* what the input device still has to deliver
    \* --- AudioSink
    sink_queue,             \* AudioSink.audio_queue.queue
    unfinished_tasks,       \* AudioSink.audio_queue.unfinished_tasks
    sink_running,           \* AudioSink._running
    out_stream,             \* AudioSink._stream
    ppc,                    \* position of the playback thread
    pchunk,                 \* the chunk the playback thread holds
    written,                \* what was written to the output device
    cl,                     \* a direct client of AudioSink (tests, examples)
    \* --- WebRtcVAD.is_speech
    vad,                    \* one call: its argument, position and outcome
    \* --- history variables (observations, never read by the program)
    obs

pipeVars == <<state, conversation_history, audio_queue, running,
              processing_thread, end_of_speech_timeout, max_phrase_duration, mpc>>
loopVars == <<opc, chunk, voice_buffer, speech_started_at, silence_started_at,
              join_started>>
srcVars  == <<cpc, src_running, in_stream, feed>>
sinkVars == <<sink_queue, unfinished_tasks, sink_running, out_stream, ppc,
              pchunk, written>>
vars == <<now, pipeVars, loopVars, tasks, srcVars, sinkVars, cl, vad, obs>>

\* ------------------------------------------------------------- data
\* VoiceState (INTERRUPTED is declared by the enum and never assigned).
VoiceState == {"IDLE", "LISTENING", "PROCESSING", "SPEAKING", "INTERRUPTED"}

\* What vad.is_speech does with a frame: True, False, or raise.
FrameKinds == {"speech", "silence", "bad"}
\* A frame is identified by the tick of the read that returned it.
Frame(t, k) == [t |-> t, kind |-> k]
NoFrame == [t |-> 0, kind |-> "none"]

\* Transcripts the STT collaborator may return, as character sequences.
Transcripts == {<< >>, <<" ", " ">>, <<" ", "a">>}

RECURSIVE Strip(_)
\* str.strip(): leading and trailing whitespace removed.
Strip(s) ==
    IF s = << >> THEN << >>
    ELSE IF Head(s) = " " THEN Strip(Tail(s))
    ELSE IF s[Len(s)] = " " THEN Strip(SubSeq(s, 1, Len(s) - 1))
    ELSE s

HumanMessage(text) == [role |-> "human", content |-> text]

TaskIds == 1..MaxTasks
NoTask == [pc |-> "none", audio_data |-> << >>, user_text |-> << >>, n |-> 0,
           \* observations: the collaborators called, the frames the hand-off
           \* should have carried, stop() returned during the turn, the last
           \* interruption check began after that stop(), the state was set
           \* to LISTENING by an interruption while the thread was running
           calls |-> {}, expected |-> << >>, stopped |-> FALSE, late |-> FALSE,
           interrupted |-> FALSE]
Alive(i) == tasks[i].pc \notin {"none", "done"}
AliveTasks == {i \in TaskIds : Alive(i)}
Spawned == Cardinality({i \in TaskIds : tasks[i].pc # "none"})

\* AudioSink queue items: audio chunks, and None (the sentinel).
Sentinel == [task |-> 0, n |-> 0]
AudioChunk(i, k) == [task |-> i, n |-> k]
NoChunk == [task |-> 0, n |-> -1]

\* A call of WebRtcVAD.is_speech: the argument (whether it is a bytes
\* object, its length, what the underlying classifier answers for it), the
\* position in the method, the outcome, and the calls made to the
\* underlying classifier.
VadCall(is_bytes, len, verdict) ==
    [pc |-> "type", is_bytes |-> is_bytes, len |-> len, verdict |-> verdict,
     outcome |-> "none", classifier_calls |-> 0]
NoVadCall == [VadCall(TRUE, 0, FALSE) EXCEPT !.pc = "none"]

\* ------------------------------------------------------ the environment
\* What the input device delivers, and the timeouts the pipeline is
\* constructed with. AnyFeed: the defaults, and a device that may return
\* speech, silence or nothing at every read, up to tick MaxTime.
AnyFeed == [mode |-> "any", faults |-> FALSE, until |-> MaxTime,
            speech |-> 0, silence |-> 0,
            eos |-> DefaultEndOfSpeechTimeout, max |-> DefaultMaxPhraseDuration]

\* One utterance: `speech` speech frames, then `silence` silence frames, then
\* nothing. The end-of-speech timeout is `eos` frame durations and the
\* phrase limit is far away, as with the defaults (0.8 s against 20 s). The
\* clock runs until the timeout must have been noticed, however far behind
\* the orchestrator is.
Script(speech, silence, eos) ==
    [mode |-> "script", faults |-> FALSE,
     until |-> 1 + speech + silence + eos + MaxQueue + 1,
     speech |-> speech, silence |-> silence, eos |-> eos, max |-> 8 * eos]

Scripts == {Script(5, 3, 3), Script(5, 5, 3), Script(2, 4, 3)}

Feeds == {AnyFeed} \cup Scripts

\* As AnyFeed, with a device and a VAD that may also fail: a read may raise
\* IOError or return a frame the VAD rejects, a write may raise.
FaultyFeed == [AnyFeed EXCEPT !.faults = TRUE]

\* ------------------------------------------------------------- Init
\* The state after VoicePipeline.__init__: nothing opened, no thread running.
Constructed(f) ==
    /\ now = 1
    /\ state = "IDLE"
    /\ conversation_history = << >>
    /\ audio_queue = << >>
    /\ running = FALSE
    /\ processing_thread = 0
    /\ feed = f
    /\ end_of_speech_timeout = f.eos
    /\ max_phrase_duration = f.max
    /\ mpc = "init"
    /\ opc = "none"
    /\ chunk = NoFrame
    /\ voice_buffer = << >>
    /\ speech_started_at = 0
    /\ silence_started_at = 0
    /\ join_started = 0
    /\ tasks = [i \in TaskIds |-> NoTask]
    /\ cpc = "none"
    /\ src_running = FALSE
    /\ in_stream = "none"
    /\ sink_queue = << >>
    /\ unfinished_tasks = 0
    /\ sink_running = FALSE
    /\ out_stream = "none"
    /\ ppc = "none"
    /\ pchunk = NoChunk
    /\ written = << >>
    /\ cl = [pc |-> "none", n |-> 0]
    /\ obs = [lp_count |-> 0, since_start |-> << >>, int_events |-> << >>,
              stop_calls |-> 0, at_stop |-> << >>, dev_calls |-> << >>,
              src_calls |-> << >>, read_failed |-> FALSE]

InitWith(f) == Constructed(f) /\ vad = NoVadCall

Init == \E f \in Feeds : InitWith(f)

\* The same, with the device and the VAD allowed to fail.
FaultInit == InitWith(FaultyFeed)

\* ------------------------------------------------- VoicePipeline.start
Start ==
    /\ mpc = "init"
    /\ ~running
    /\ running' = TRUE
    /\ in_stream' = "open" /\ src_running' = TRUE /\ cpc' = "read"
    /\ out_stream' = "open" /\ sink_running' = TRUE /\ ppc' = "get"
    /\ opc' = "get"
    /\ mpc' = "started"
    /\ UNCHANGED <<vad, now, state, conversation_history, audio_queue,
                   processing_thread, end_of_speech_timeout, max_phrase_duration,
                   chunk, voice_buffer, speech_started_at, silence_started_at,
                   join_started, tasks, feed, sink_queue, unfinished_tasks,
                   pchunk, written, cl, obs>>

\* ------------------------------------------- AudioSource._capture_loop
\* What the scripted input device returns for the read that ends at tick t.
ScriptKind(t) ==
    IF t <= 1 + feed.speech THEN "speech"
    ELSE IF t <= 1 + feed.speech + feed.silence THEN "silence"
    ELSE "empty"

\* What one device read may return: a frame, no data (the device stalled),
\* or an IOError. With `faults` the device may also return a frame the VAD
\* rejects, or fail.
ReadOutcomes(t) ==
    LET room == Len(audio_queue) < (IF opc = "none" THEN MaxBacklog
                                    ELSE MaxQueue)
    IN
    CASE feed.mode = "any" ->
            (IF room THEN {"speech", "silence"} ELSE {})
            \cup {"empty"}
            \cup (IF room /\ feed.faults THEN {"bad"} ELSE {})
            \cup (IF feed.faults THEN {"ioerror"} ELSE {})
      [] OTHER ->
            IF room \/ ScriptKind(t) = "empty" THEN {ScriptKind(t)} ELSE {}

\* A read that was in progress when __exit__ stopped or closed the stream
\* may also fail.
ClosedReadOutcomes == IF in_stream = "open" THEN {} ELSE {"ioerror"}

\* Line 34 without the test: whatever the read returned is put.
CaptureReadNoTest(r) ==
    /\ audio_queue' = IF r # "ioerror"
                      THEN Append(audio_queue, Frame(now + 1, r))
                      ELSE audio_queue
    /\ cpc' = IF r = "ioerror" \/ ~src_running THEN "exited" ELSE "read"

\* Lines 36-39 without the break: the loop goes on after an IOError.
CaptureReadRetry(r) ==
    /\ audio_queue' = IF r \in FrameKinds
                      THEN Append(audio_queue, Frame(now + 1, r))
                      ELSE audio_queue
    /\ cpc' = IF ~src_running THEN "exited" ELSE "read"

\* Lines 31-39, one pass of the loop body: the blocking read returns after
\* one frame duration, the data (if any) is put on the queue, and the loop
\* condition is tested again.
CaptureRead(r) ==
    /\ audio_queue' = IF r \in FrameKinds
                      THEN Append(audio_queue, Frame(now + 1, r))
                      ELSE audio_queue
    /\ cpc' = IF r = "ioerror" \/ ~src_running THEN "exited" ELSE "read"

\* One tick of the clock. A capture thread blocked in a read completes it.
Tick ==
    /\ mpc # "init"
    /\ now < feed.until
    /\ now' = now + 1
    /\ IF cpc = "read"
       THEN \E r \in ReadOutcomes(now + 1) \cup ClosedReadOutcomes :
               /\ CaptureRead(r)
               /\ obs' = [obs EXCEPT !.read_failed = @ \/ r = "ioerror"]
       ELSE UNCHANGED <<audio_queue, cpc, obs>>
    /\ UNCHANGED <<vad, state, conversation_history, running,
                   processing_thread, end_of_speech_timeout, max_phrase_duration,
                   mpc, loopVars, tasks, src_running, in_stream, feed, sinkVars,
                   cl>>

\* --------------------------------------- VoicePipeline._pipeline_loop
\* The cutoff with the operands of the subtraction exchanged.
PhraseTooLongSwapped(t, started) == started - t > max_phrase_duration

\* Line 72: the forced cutoff of a phrase.
PhraseTooLong(t, started) == t - started > max_phrase_duration

\* The timeout test with the operands of the subtraction exchanged.
SilenceTimedOutSwapped(t, silence) ==
    silence > 0 /\ silence - t >= end_of_speech_timeout

\* Lines 73 and 85: the silence timer is running and has reached the timeout.
SilenceTimedOut(t, silence) ==
    silence > 0 /\ t - silence >= end_of_speech_timeout

\* Lines 67-70 without line 68: a speech frame leaves the timer running.
SilenceTimerNoReset(is_speech, silence, t) ==
    IF ~is_speech /\ silence = 0 THEN t ELSE silence

\* Lines 67-70: the silence timer after a frame received in LISTENING.
SilenceTimer(is_speech, silence, t) ==
    IF is_speech THEN 0 ELSE IF silence = 0 THEN t ELSE silence

\* Lines 63 and 66 keeping speech frames only.
BufferedSpeechOnly(buf, c) == IF c.kind = "speech" THEN Append(buf, c) ELSE buf

\* Lines 63 and 66: voice_buffer.append(chunk), whatever the frame is.
Buffered(buf, c) == Append(buf, c)

\* Lines 55-56 in the other order: append(chunk), then clear().
InterruptBufferCleared(buf, c) == << >>

\* Lines 55-56: the buffer an interruption leaves.
InterruptBuffer(buf, c) == <<c>>

\* The hand-off leaving the local buffer as it was (line 92 skipped).
HandoffKeepBuffer(buf, seen) ==
    LET id == Spawned + 1 IN
    /\ Spawned < MaxTasks
    /\ state' = "PROCESSING"
    /\ tasks' = [tasks EXCEPT ![id] = [NoTask EXCEPT !.pc = "stt", !.audio_data = buf,
                                                     !.expected = seen]]
    /\ processing_thread' = id
    /\ voice_buffer' = buf
    /\ obs' = [obs EXCEPT !.lp_count = IF state = "LISTENING" THEN @ + 1 ELSE @,
                          !.since_start = << >>]

\* Lines 76-82 and 87-93: the hand-off. The new thread gets a copy of the
\* buffer and the local buffer is cleared. `seen` is the observation of the
\* frames consumed since speech_started_at was recorded (kept only while an
\* utterance is being collected).
Handoff(buf, seen) ==
    LET id == Spawned + 1 IN
    /\ Spawned < MaxTasks
    /\ state' = "PROCESSING"
    /\ tasks' = [tasks EXCEPT ![id] = [NoTask EXCEPT !.pc = "stt", !.audio_data = buf,
                                                     !.expected = seen]]
    /\ processing_thread' = id
    /\ voice_buffer' = << >>
    /\ obs' = [obs EXCEPT !.lp_count = IF state = "LISTENING" THEN @ + 1 ELSE @,
                          !.since_start = << >>]

\* Line 41, evaluated after one pass of the body: the orchestrator is back
\* in get(), or has left the loop once stop() cleared the flag.
OrchAfterPass == IF running THEN "get" ELSE "exited"

\* Line 60 without `and is_speech`: any frame received in IDLE starts an
\* utterance.
OrchFrameIdleAnyFrame ==
    /\ opc = "get"
    /\ audio_queue # << >>
    /\ LET c == Head(audio_queue)
           is_speech == c.kind = "speech"
           seen == Append(obs.since_start, c)
       IN
       /\ audio_queue' = Tail(audio_queue)
       /\ CASE c.kind = "bad" ->
                \* vad.is_speech raised: except Exception, line 97
                /\ state' = "IDLE"
                /\ opc' = OrchAfterPass
                /\ obs' = [obs EXCEPT !.since_start = << >>]
                /\ UNCHANGED <<chunk, voice_buffer, speech_started_at,
                               silence_started_at, tasks, processing_thread>>
            [] c.kind # "bad" /\ state = "SPEAKING" /\ is_speech ->
                /\ opc' = "stop_flag"
                /\ chunk' = c
                /\ obs' = [obs EXCEPT !.since_start = << >>, !.int_events = << >>]
                /\ UNCHANGED <<state, voice_buffer, speech_started_at,
                               silence_started_at, tasks, processing_thread>>
            [] c.kind # "bad" /\ state = "IDLE" ->
                /\ state' = "LISTENING"
                /\ speech_started_at' = now
                /\ silence_started_at' = 0
                /\ voice_buffer' = Buffered(voice_buffer, c)
                /\ opc' = OrchAfterPass
                /\ obs' = [obs EXCEPT !.since_start = <<c>>]
                /\ UNCHANGED <<chunk, tasks, processing_thread>>
            [] c.kind # "bad" /\ state = "LISTENING" ->
                LET buf == Buffered(voice_buffer, c)
                    silence == SilenceTimer(is_speech, silence_started_at, now)
                IN
                /\ silence_started_at' = silence
                /\ IF PhraseTooLong(now, speech_started_at)
                      \/ SilenceTimedOut(now, silence)
                   THEN Handoff(buf, seen)
                   ELSE /\ voice_buffer' = buf
                        /\ obs' = [obs EXCEPT !.since_start = seen]
                        /\ UNCHANGED <<state, tasks, processing_thread>>
                /\ opc' = OrchAfterPass
                /\ UNCHANGED <<chunk, speech_started_at>>
            [] OTHER ->
                /\ opc' = OrchAfterPass
                /\ obs' = [obs EXCEPT !.since_start = << >>]
                /\ UNCHANGED <<state, chunk, voice_buffer, speech_started_at,
                               silence_started_at, tasks, processing_thread>>
    /\ UNCHANGED <<vad, now, conversation_history, running, end_of_speech_timeout,
                   max_phrase_duration, mpc, join_started, srcVars, sinkVars, cl>>

\* Lines 43-82 and 95-97: one frame is taken from the queue, classified and
\* handled. The interruption branch only begins here (lines 49-56 follow as
\* steps of their own).
OrchFrame ==
    /\ opc = "get"
    /\ audio_queue # << >>
    /\ LET c == Head(audio_queue)
           is_speech == c.kind = "speech"
           seen == Append(obs.since_start, c)
       IN
       /\ audio_queue' = Tail(audio_queue)
       /\ CASE c.kind = "bad" ->
                \* vad.is_speech raised: except Exception, line 97
                /\ state' = "IDLE"
                /\ opc' = OrchAfterPass
                /\ obs' = [obs EXCEPT !.since_start = << >>]
                /\ UNCHANGED <<chunk, voice_buffer, speech_started_at,
                               silence_started_at, tasks, processing_thread>>
            [] c.kind # "bad" /\ state = "SPEAKING" /\ is_speech ->
                /\ opc' = "stop_flag"
                /\ chunk' = c
                /\ obs' = [obs EXCEPT !.since_start = << >>, !.int_events = << >>]
                /\ UNCHANGED <<state, voice_buffer, speech_started_at,
                               silence_started_at, tasks, processing_thread>>
            [] c.kind # "bad" /\ state = "IDLE" /\ is_speech ->
                /\ state' = "LISTENING"
                /\ speech_started_at' = now
                /\ silence_started_at' = 0
                /\ voice_buffer' = Buffered(voice_buffer, c)
                /\ opc' = OrchAfterPass
                /\ obs' = [obs EXCEPT !.since_start = <<c>>]
                /\ UNCHANGED <<chunk, tasks, processing_thread>>
            [] c.kind # "bad" /\ state = "LISTENING" ->
                LET buf == Buffered(voice_buffer, c)
                    silence == SilenceTimer(is_speech, silence_started_at, now)
                IN
                /\ silence_started_at' = silence
                /\ IF PhraseTooLong(now, speech_started_at)
                      \/ SilenceTimedOut(now, silence)
                   THEN Handoff(buf, seen)
                   ELSE /\ voice_buffer' = buf
                        /\ obs' = [obs EXCEPT !.since_start = seen]
                        /\ UNCHANGED <<state, tasks, processing_thread>>
                /\ opc' = OrchAfterPass
                /\ UNCHANGED <<chunk, speech_started_at>>
            [] OTHER ->
                /\ opc' = OrchAfterPass
                /\ obs' = [obs EXCEPT !.since_start = << >>]
                /\ UNCHANGED <<state, chunk, voice_buffer, speech_started_at,
                               silence_started_at, tasks, processing_thread>>
    /\ UNCHANGED <<vad, now, conversation_history, running, end_of_speech_timeout,
                   max_phrase_duration, mpc, join_started, srcVars, sinkVars, cl>>

\* Lines 84-94: the queue stayed empty for the poll interval.
OrchPoll ==
    /\ opc = "get"
    /\ audio_queue = << >>
    /\ state = "LISTENING"
    /\ SilenceTimedOut(now, silence_started_at)
    /\ Handoff(voice_buffer, obs.since_start)
    /\ opc' = OrchAfterPass
    /\ UNCHANGED <<vad, now, conversation_history, audio_queue, running,
                   end_of_speech_timeout, max_phrase_duration, mpc, chunk,
                   speech_started_at, silence_started_at, join_started, srcVars,
                   sinkVars, cl>>

\* AudioSink.stop, line 132: self._running.clear()
SinkStopFlag ==
    /\ sink_running' = FALSE
    /\ UNCHANGED <<sink_queue, unfinished_tasks, out_stream, ppc, pchunk, written>>

\* AudioSink.stop, lines 134-135: the deque is emptied under the mutex;
\* unfinished_tasks is not touched.
SinkStopClear ==
    /\ sink_queue' = << >>
    /\ UNCHANGED <<unfinished_tasks, sink_running, out_stream, ppc, pchunk, written>>

\* A put at the wrong end of the deque (a LIFO queue).
SinkPutFront(item) ==
    /\ sink_queue' = <<item>> \o sink_queue
    /\ unfinished_tasks' = unfinished_tasks + 1
    /\ UNCHANGED <<sink_running, out_stream, ppc, pchunk, written>>

\* Queue.put: the item is appended and unfinished_tasks incremented.
SinkPut(item) ==
    /\ sink_queue' = Append(sink_queue, item)
    /\ unfinished_tasks' = unfinished_tasks + 1
    /\ UNCHANGED <<sink_running, out_stream, ppc, pchunk, written>>

\* Line 49, first statement of self._sink.stop().
OrchStopFlag ==
    /\ opc = "stop_flag"
    /\ SinkStopFlag
    /\ opc' = "stop_clear"
    /\ obs' = [obs EXCEPT !.int_events = Append(@, "stop"),
                          !.stop_calls = @ + 1]
    /\ UNCHANGED <<vad, now, pipeVars, chunk, voice_buffer, speech_started_at,
                   silence_started_at, join_started, tasks, srcVars, cl>>

OrchStopClear ==
    /\ opc = "stop_clear"
    /\ SinkStopClear
    /\ opc' = "stop_put"
    /\ UNCHANGED <<vad, now, pipeVars, chunk, voice_buffer, speech_started_at,
                   silence_started_at, join_started, tasks, srcVars, cl, obs>>

\* Line 136: the sentinel is put and stop() returns; line 51-52 begin the
\* bounded wait for the processing thread.
OrchStopPut ==
    /\ opc = "stop_put"
    /\ SinkPut(Sentinel)
    /\ opc' = "join"
    /\ join_started' = now
    /\ tasks' = [i \in TaskIds |->
                    IF Alive(i) THEN [tasks[i] EXCEPT !.stopped = TRUE] ELSE tasks[i]]
    /\ UNCHANGED <<vad, now, pipeVars, chunk, voice_buffer, speech_started_at,
                   silence_started_at, srcVars, cl, obs>>

\* Line 52 as an unbounded wait: self._processing_thread.join().
OrchJoinNoTimeout ==
    /\ opc = "join"
    /\ \/ processing_thread = 0
       \/ ~Alive(processing_thread)
    /\ opc' = "set"
    /\ join_started' = 0
    /\ UNCHANGED <<vad, now, pipeVars, chunk, voice_buffer, speech_started_at,
                   silence_started_at, tasks, srcVars, sinkVars, cl, obs>>

\* Lines 51-52: the wait ends when the thread is dead (or was never alive)
\* or when the timeout has passed.
OrchJoin ==
    /\ opc = "join"
    /\ \/ processing_thread = 0
       \/ ~Alive(processing_thread)
       \/ now - join_started >= InterruptJoinTimeout
    /\ opc' = "set"
    /\ join_started' = 0
    /\ UNCHANGED <<vad, now, pipeVars, chunk, voice_buffer, speech_started_at,
                   silence_started_at, tasks, srcVars, sinkVars, cl, obs>>

\* Lines 53-57.
OrchSet ==
    /\ opc = "set"
    /\ state' = "LISTENING"
    /\ speech_started_at' = now
    /\ silence_started_at' = 0
    /\ voice_buffer' = InterruptBuffer(voice_buffer, chunk)
    /\ chunk' = NoFrame
    /\ opc' = OrchAfterPass
    /\ obs' = [obs EXCEPT !.since_start = <<chunk>>,
                          !.int_events = Append(@, "listening")]
    /\ tasks' = [i \in TaskIds |->
                    IF Alive(i) THEN [tasks[i] EXCEPT !.interrupted = TRUE]
                    ELSE tasks[i]]
    /\ UNCHANGED <<vad, now, conversation_history, audio_queue, running,
                   processing_thread, end_of_speech_timeout, max_phrase_duration,
                   mpc, join_started, srcVars, sinkVars, cl>>

\* ------------------- VoicePipeline._handle_processing_and_speaking
\* Line 104 without the strip(): `not user_text`.
TranscriptIsEmptyNoStrip(text) == text = << >>

\* Line 104: `not user_text.strip()`.
TranscriptIsEmpty(text) == Strip(text) = << >>

\* A finished thread: only what it did is kept.
Done(t) == [NoTask EXCEPT !.pc = "done", !.calls = t.calls,
                          !.user_text = IF t.pc = "text" THEN t.user_text ELSE << >>]

\* The except handler without line 140: the exception is only logged.
TaskRaiseLogOnly(i) ==
    /\ state' = state
    /\ tasks' = [tasks EXCEPT ![i] = Done(tasks[i])]

\* Lines 138-140: except Exception. The thread ends with state = IDLE.
TaskRaise(i) ==
    /\ state' = "IDLE"
    /\ tasks' = [tasks EXCEPT ![i] = Done(tasks[i])]

\* Line 103: the STT collaborator consumes the frames and returns the
\* transcript, or raises.
TaskStt(i) ==
    /\ tasks[i].pc = "stt"
    /\ \/ \E text \in Transcripts :
             /\ tasks' = [tasks EXCEPT ![i] = [@ EXCEPT !.pc = "text",
                                                        !.audio_data = << >>,
                                                        !.expected = << >>,
                                                        !.user_text = text,
                                                        !.calls = @ \cup {"stt"}]]
             /\ UNCHANGED state
       \/ TaskRaise(i)
    /\ UNCHANGED <<vad, now, conversation_history, audio_queue, running,
                   processing_thread, end_of_speech_timeout, max_phrase_duration,
                   mpc, loopVars, srcVars, sinkVars, cl, obs>>

\* Lines 104-122: an empty transcript ends the turn; otherwise the user
\* message is appended, the state set to SPEAKING, and the (lazy) LLM and
\* TTS streams are created.
TaskText(i) ==
    /\ tasks[i].pc = "text"
    /\ IF TranscriptIsEmpty(tasks[i].user_text)
       THEN /\ state' = "IDLE"
            /\ tasks' = [tasks EXCEPT ![i] = Done(tasks[i])]
            /\ UNCHANGED conversation_history
       ELSE /\ conversation_history' =
                   Append(conversation_history, HumanMessage(tasks[i].user_text))
            /\ state' = "SPEAKING"
            /\ tasks' = [tasks EXCEPT ![i] = [@ EXCEPT !.pc = "next",
                                                       !.calls = @ \cup {"llm", "tts"}]]
    /\ UNCHANGED <<vad, now, audio_queue, running, processing_thread,
                   end_of_speech_timeout, max_phrase_duration, mpc, loopVars,
                   srcVars, sinkVars, cl, obs>>

\* Line 125: the next item of tts_audio_stream (which pulls the LLM stream
\* through the sentence splitter): a chunk, the end of the stream, or an
\* exception of a collaborator.
TaskNext(i) ==
    /\ tasks[i].pc = "next"
    /\ \E r \in {"chunk", "end", "raise"} :
          CASE r = "chunk" ->
                 /\ tasks[i].n < MaxChunks
                 /\ tasks' = [tasks EXCEPT ![i] = [@ EXCEPT !.pc = "check", !.n = @ + 1]]
                 /\ UNCHANGED state
            [] r = "end" ->
                 /\ tasks' = [tasks EXCEPT ![i] = [@ EXCEPT !.pc = "join"]]
                 /\ UNCHANGED state
            [] OTHER -> TaskRaise(i)
    /\ UNCHANGED <<vad, now, conversation_history, audio_queue, running,
                   processing_thread, end_of_speech_timeout, max_phrase_duration,
                   mpc, loopVars, srcVars, sinkVars, cl, obs>>

\* Lines 126-128: the cooperative interruption check.
TaskCheck(i) ==
    /\ tasks[i].pc = "check"
    /\ tasks' = [tasks EXCEPT ![i] =
                    IF state # "SPEAKING" THEN Done(@)
                    ELSE [@ EXCEPT !.pc = "play", !.late = @ \/ tasks[i].stopped]]
    /\ UNCHANGED <<vad, now, pipeVars, loopVars, srcVars, sinkVars, cl, obs>>

\* Line 129: self._sink.play_chunk(audio_chunk).
TaskPlay(i) ==
    /\ tasks[i].pc = "play"
    /\ SinkPut(AudioChunk(i, tasks[i].n))
    /\ tasks' = [tasks EXCEPT ![i] = [@ EXCEPT !.pc = "next", !.calls = @ \cup {"play"}]]
    /\ UNCHANGED <<vad, now, pipeVars, loopVars, srcVars, cl, obs>>

\* Line 130: self._sink.join() returns when unfinished_tasks is zero.
TaskJoin(i) ==
    /\ tasks[i].pc = "join"
    /\ unfinished_tasks = 0
    /\ tasks' = [tasks EXCEPT ![i] = [@ EXCEPT !.pc = "fcheck"]]
    /\ UNCHANGED <<vad, now, pipeVars, loopVars, srcVars, sinkVars, cl, obs>>

\* Line 133: the test of the state before the turn is ended.
TaskFinalCheck(i) ==
    /\ tasks[i].pc = "fcheck"
    /\ tasks' = [tasks EXCEPT ![i] =
                    IF state = "SPEAKING" THEN [@ EXCEPT !.pc = "finish"] ELSE Done(@)]
    /\ UNCHANGED <<vad, now, pipeVars, loopVars, srcVars, sinkVars, cl, obs>>

\* Lines 135-136: the frame channel is emptied and the state set to IDLE.
TaskFinish(i) ==
    /\ tasks[i].pc = "finish"
    /\ audio_queue' = << >>
    /\ state' = "IDLE"
    /\ tasks' = [tasks EXCEPT ![i] = Done(@)]
    /\ UNCHANGED <<vad, now, conversation_history, running, processing_thread,
                   end_of_speech_timeout, max_phrase_duration, mpc, loopVars,
                   srcVars, sinkVars, cl, obs>>

\* ----------------------------------------- AudioSink._playback_loop
\* The thread is either blocked in get() (line 92, the loop condition of
\* line 90 having held), or holds a chunk it took (line 100), or is writing
\* it (line 101), or has left the loop.

\* Line 90, evaluated after one pass of the body.
AfterPass == IF sink_running THEN "get" ELSE "exited"

\* Lines 92-98: an item is taken; the sentinel is marked done and ends the
\* loop.
PlaybackGet ==
    /\ ppc = "get"
    /\ sink_queue # << >>
    /\ sink_queue' = Tail(sink_queue)
    /\ IF Head(sink_queue) = Sentinel
       THEN /\ unfinished_tasks' = unfinished_tasks - 1
            /\ ppc' = "exited"
            /\ UNCHANGED pchunk
       ELSE /\ ppc' = "got"
            /\ pchunk' = Head(sink_queue)
            /\ UNCHANGED unfinished_tasks
    /\ UNCHANGED <<vad, now, pipeVars, loopVars, tasks, srcVars, sink_running,
                   out_stream, written, cl, obs>>

\* Lines 104-105 and 90: queue.Empty after the poll interval, and the loop
\* condition fails (while it holds the thread is back in get()).
PlaybackEmpty ==
    /\ ppc = "get"
    /\ sink_queue = << >>
    /\ ~sink_running
    /\ ppc' = "exited"
    /\ UNCHANGED <<vad, now, pipeVars, loopVars, tasks, srcVars, sink_queue,
                   unfinished_tasks, sink_running, out_stream, pchunk, written,
                   cl, obs>>

\* Line 100 testing the stream only: `if self._stream:`.
PlaybackCheckStreamOnly ==
    /\ ppc = "got"
    /\ IF out_stream # "none"
       THEN /\ ppc' = "write"
            /\ UNCHANGED <<pchunk, unfinished_tasks>>
       ELSE /\ pchunk' = NoChunk
            /\ unfinished_tasks' = unfinished_tasks - 1
            /\ ppc' = AfterPass
    /\ UNCHANGED <<vad, now, pipeVars, loopVars, tasks, srcVars, sink_queue,
                   sink_running, out_stream, written, cl, obs>>

\* Line 100: the test before the write. When it fails the chunk is marked
\* done unwritten (line 103) and the loop condition is tested.
PlaybackCheck ==
    /\ ppc = "got"
    /\ IF out_stream # "none" /\ sink_running
       THEN /\ ppc' = "write"
            /\ UNCHANGED <<pchunk, unfinished_tasks>>
       ELSE /\ pchunk' = NoChunk
            /\ unfinished_tasks' = unfinished_tasks - 1
            /\ ppc' = AfterPass
    /\ UNCHANGED <<vad, now, pipeVars, loopVars, tasks, srcVars, sink_queue,
                   sink_running, out_stream, written, cl, obs>>

\* Lines 101-103 and 106-109: the chunk is written and marked done, and
\* the loop condition is tested; a write that raises (a device error, or a
\* stream that __exit__ has stopped or closed) ends the loop with the chunk
\* never marked done.
PlaybackWrite ==
    /\ ppc = "write"
    /\ pchunk' = NoChunk
    /\ \E ok \in (IF out_stream # "open" THEN {FALSE}
                  ELSE IF feed.faults THEN BOOLEAN ELSE {TRUE}) :
          IF ok
          THEN /\ written' = Append(written, pchunk)
               /\ unfinished_tasks' = unfinished_tasks - 1
               /\ ppc' = AfterPass
          ELSE /\ ppc' = "exited"
               /\ UNCHANGED <<written, unfinished_tasks>>
    /\ UNCHANGED <<vad, now, pipeVars, loopVars, tasks, srcVars, sink_queue,
                   sink_running, out_stream, cl, obs>>

\* ---------------------------------------------------- specification
Next ==
    \/ Start
    \/ Tick
    \/ OrchFrame
    \/ OrchPoll
    \/ OrchStopFlag
    \/ OrchStopClear
    \/ OrchStopPut
    \/ OrchJoin
    \/ OrchSet
    \/ \E i \in TaskIds : TaskStt(i)
    \/ \E i \in TaskIds : TaskText(i)
    \/ \E i \in TaskIds : TaskNext(i)
    \/ \E i \in TaskIds : TaskCheck(i)
    \/ \E i \in TaskIds : TaskPlay(i)
    \/ \E i \in TaskIds : TaskJoin(i)
    \/ \E i \in TaskIds : TaskFinalCheck(i)
    \/ \E i \in TaskIds : TaskFinish(i)
    \/ PlaybackGet
    \/ PlaybackEmpty
    \/ PlaybackCheck
    \/ PlaybackWrite

Spec == Init /\ [][Next]_vars

FaultSpec == FaultInit /\ [][Next]_vars

\* ------------------------------------------- AudioSink used on its own
\* AudioSink.__enter__ has run: the stream is open and the playback thread
\* started; one client thread is about to call play_chunk, stop and join.
SinkInit ==
    /\ now = 1
    /\ state = "IDLE"
    /\ conversation_history = << >>
    /\ audio_queue = << >>
    /\ running = FALSE
    /\ processing_thread = 0
    /\ feed = AnyFeed
    /\ end_of_speech_timeout = feed.eos
    /\ max_phrase_duration = feed.max
    /\ mpc = "init"
    /\ opc = "none"
    /\ chunk = NoFrame
    /\ voice_buffer = << >>
    /\ speech_started_at = 0
    /\ silence_started_at = 0
    /\ join_started = 0
    /\ tasks = [i \in TaskIds |-> NoTask]
    /\ cpc = "none"
    /\ src_running = FALSE
    /\ in_stream = "none"
    /\ sink_queue = << >>
    /\ unfinished_tasks = 0
    /\ sink_running = TRUE
    /\ out_stream = "open"
    /\ ppc = "get"
    /\ pchunk = NoChunk
    /\ written = << >>
    /\ cl = [pc |-> "play", n |-> 0]
    /\ vad = NoVadCall
    /\ obs = [lp_count |-> 0, since_start |-> << >>, int_events |-> << >>,
              stop_calls |-> 0, at_stop |-> << >>, dev_calls |-> << >>,
              src_calls |-> << >>, read_failed |-> FALSE]

\* test_audio.py, the examples: sink.play_chunk(chunk).
ClientPlay ==
    /\ cl.pc = "play"
    /\ cl.n < MaxPlay
    /\ SinkPut(AudioChunk(0, cl.n + 1))
    /\ cl' = [cl EXCEPT !.n = @ + 1]
    /\ UNCHANGED <<vad, now, pipeVars, loopVars, tasks, srcVars, obs>>

\* sink.stop(), statement by statement.
ClientStopFlag ==
    /\ cl.pc = "play"
    /\ SinkStopFlag
    /\ cl' = [cl EXCEPT !.pc = "stop_clear"]
    /\ obs' = [obs EXCEPT !.stop_calls = @ + 1, !.at_stop = sink_queue]
    /\ UNCHANGED <<vad, now, pipeVars, loopVars, tasks, srcVars>>

ClientStopClear ==
    /\ cl.pc = "stop_clear"
    /\ SinkStopClear
    /\ cl' = [cl EXCEPT !.pc = "stop_put"]
    /\ UNCHANGED <<vad, now, pipeVars, loopVars, tasks, srcVars, obs>>

\* The sentinel is put, stop() returns, and the client calls join().
ClientStopPut ==
    /\ cl.pc = "stop_put"
    /\ SinkPut(Sentinel)
    /\ cl' = [cl EXCEPT !.pc = "join"]
    /\ UNCHANGED <<vad, now, pipeVars, loopVars, tasks, srcVars, obs>>

\* sink.join() returns when unfinished_tasks is zero.
ClientJoin ==
    /\ cl.pc = "join"
    /\ unfinished_tasks = 0
    /\ cl' = [cl EXCEPT !.pc = "done"]
    /\ UNCHANGED <<vad, now, pipeVars, loopVars, tasks, srcVars, sinkVars, obs>>

\* A second thread calling sink.play_chunk(chunk) while stop() is running
\* in the first (in the pipeline: the processing thread and the
\* orchestrator).
ProducerPlay ==
    /\ cl.pc \in {"stop_clear", "stop_put"}
    /\ cl.n < MaxPlay
    /\ SinkPut(AudioChunk(0, cl.n + 1))
    /\ cl' = [cl EXCEPT !.n = @ + 1]
    /\ UNCHANGED <<vad, now, pipeVars, loopVars, tasks, srcVars, obs>>

\* AudioSink.__exit__, line 156: the context is left, after the last
\* play_chunk() or after stop() has returned.
ExitTest ==
    /\ cl.pc \in {"play", "join", "exit_test"}
    /\ cl' = [cl EXCEPT !.pc = IF sink_running THEN "exit_join"
                                ELSE "exit_thread"]
    /\ UNCHANGED <<vad, now, pipeVars, loopVars, tasks, srcVars, sinkVars, obs>>

\* Line 157 skipped: __exit__ not waiting for the pending items.
ExitJoinNoWait ==
    /\ cl.pc = "exit_join"
    /\ cl' = [cl EXCEPT !.pc = "exit_put"]
    /\ UNCHANGED <<vad, now, pipeVars, loopVars, tasks, srcVars, sinkVars, obs>>

\* Line 157: self.join() returns when unfinished_tasks is zero.
ExitJoin ==
    /\ cl.pc = "exit_join"
    /\ unfinished_tasks = 0
    /\ cl' = [cl EXCEPT !.pc = "exit_put"]
    /\ UNCHANGED <<vad, now, pipeVars, loopVars, tasks, srcVars, sinkVars, obs>>

\* Line 158: self.audio_queue.put(None).
ExitPut ==
    /\ cl.pc = "exit_put"
    /\ SinkPut(Sentinel)
    /\ cl' = [cl EXCEPT !.pc = "exit_clear"]
    /\ UNCHANGED <<vad, now, pipeVars, loopVars, tasks, srcVars, obs>>

\* Line 159: self._running.clear().
ExitClear ==
    /\ cl.pc = "exit_clear"
    /\ SinkStopFlag
    /\ cl' = [cl EXCEPT !.pc = "exit_thread"]
    /\ UNCHANGED <<vad, now, pipeVars, loopVars, tasks, srcVars, obs>>

\* Lines 161-162: the playback thread is joined for at most one second;
\* the call returns when the thread has left its loop or when the time is
\* up, whichever comes first.
ExitThreadJoin ==
    /\ cl.pc = "exit_thread"
    /\ \E timed_out \in BOOLEAN : timed_out \/ ppc = "exited"
    /\ cl' = [cl EXCEPT !.pc = "exit_stop_stream"]
    /\ UNCHANGED <<vad, now, pipeVars, loopVars, tasks, srcVars, sinkVars, obs>>

\* Lines 164-165: self._stream.stop_stream().
ExitStopStream ==
    /\ cl.pc = "exit_stop_stream"
    /\ out_stream' = "stopped"
    /\ obs' = [obs EXCEPT !.dev_calls = Append(@, "stop_stream")]
    /\ cl' = [cl EXCEPT !.pc = "exit_close"]
    /\ UNCHANGED <<vad, now, pipeVars, loopVars, tasks, srcVars, sink_queue,
                   unfinished_tasks, sink_running, ppc, pchunk, written>>

\* Line 166: self._stream.close().
ExitClose ==
    /\ cl.pc = "exit_close"
    /\ out_stream' = "closed"
    /\ obs' = [obs EXCEPT !.dev_calls = Append(@, "close")]
    /\ cl' = [cl EXCEPT !.pc = "exit_terminate"]
    /\ UNCHANGED <<vad, now, pipeVars, loopVars, tasks, srcVars, sink_queue,
                   unfinished_tasks, sink_running, ppc, pchunk, written>>

\* Lines 168-169: self._p.terminate(), and __exit__ returns.
ExitTerminate ==
    /\ cl.pc = "exit_terminate"
    /\ obs' = [obs EXCEPT !.dev_calls = Append(@, "terminate")]
    /\ cl' = [cl EXCEPT !.pc = "closed"]
    /\ UNCHANGED <<vad, now, pipeVars, loopVars, tasks, srcVars, sinkVars>>

SinkNext ==
    \/ ClientPlay
    \/ ProducerPlay
    \/ ExitTest
    \/ ExitJoin
    \/ ExitPut
    \/ ExitClear
    \/ ExitThreadJoin
    \/ ExitStopStream
    \/ ExitClose
    \/ ExitTerminate
    \/ ClientStopFlag
    \/ ClientStopClear
    \/ ClientStopPut
    \/ ClientJoin
    \/ PlaybackGet
    \/ PlaybackEmpty
    \/ PlaybackCheck
    \/ PlaybackWrite

SinkSpec == SinkInit /\ [][SinkNext]_vars

\* ------------------------------------------------ AudioSource.__exit__
\* Line 63: self._running.clear(). The caller is VoicePipeline.stop (line
\* 169, after the sink was closed) or the owner of a source used on its own.
SrcExitClear ==
    /\ \/ mpc = "with"
       \/ mpc = "sink_exit" /\ cl.pc = "closed"
    /\ src_running' = FALSE
    /\ mpc' = "src_join"
    /\ UNCHANGED <<vad, now, state, conversation_history, audio_queue, running,
                   processing_thread, end_of_speech_timeout, max_phrase_duration,
                   loopVars, tasks, cpc, in_stream, feed, sinkVars, cl, obs>>

\* Line 65 as an unbounded wait: self._thread.join().
SrcExitJoinNoTimeout ==
    /\ mpc = "src_join"
    /\ cpc = "exited"
    /\ mpc' = "src_stop_stream"
    /\ UNCHANGED <<vad, now, state, conversation_history, audio_queue, running,
                   processing_thread, end_of_speech_timeout, max_phrase_duration,
                   loopVars, tasks, srcVars, sinkVars, cl, obs>>

\* Lines 64-65: the capture thread is joined for at most one second; the
\* call returns when the thread has left its loop or when the time is up.
SrcExitJoin ==
    /\ mpc = "src_join"
    /\ \E timed_out \in BOOLEAN : timed_out \/ cpc = "exited"
    /\ mpc' = "src_stop_stream"
    /\ UNCHANGED <<vad, now, state, conversation_history, audio_queue, running,
                   processing_thread, end_of_speech_timeout, max_phrase_duration,
                   loopVars, tasks, srcVars, sinkVars, cl, obs>>

\* Lines 67-68: self._stream.stop_stream().
SrcExitStopStream ==
    /\ mpc = "src_stop_stream"
    /\ in_stream' = "stopped"
    /\ obs' = [obs EXCEPT !.src_calls = Append(@, "stop_stream")]
    /\ mpc' = "src_close"
    /\ UNCHANGED <<vad, now, state, conversation_history, audio_queue, running,
                   processing_thread, end_of_speech_timeout, max_phrase_duration,
                   loopVars, tasks, cpc, src_running, feed, sinkVars, cl>>

\* Line 69: self._stream.close().
SrcExitClose ==
    /\ mpc = "src_close"
    /\ in_stream' = "closed"
    /\ obs' = [obs EXCEPT !.src_calls = Append(@, "close")]
    /\ mpc' = "src_terminate"
    /\ UNCHANGED <<vad, now, state, conversation_history, audio_queue, running,
                   processing_thread, end_of_speech_timeout, max_phrase_duration,
                   loopVars, tasks, cpc, src_running, feed, sinkVars, cl>>

\* Line 71: self._p.terminate(); __exit__ returns, to line 171 of
\* VoicePipeline.stop or to the owner of the source.
SrcExitTerminate ==
    /\ mpc = "src_terminate"
    /\ obs' = [obs EXCEPT !.src_calls = Append(@, "terminate")]
    /\ mpc' = IF cl.pc = "closed" THEN "stop_set" ELSE "closed"
    /\ UNCHANGED <<vad, now, state, conversation_history, audio_queue, running,
                   processing_thread, end_of_speech_timeout, max_phrase_duration,
                   loopVars, tasks, srcVars, sinkVars, cl>>

\* ----------------------------------------- AudioSource used on its own
\* AudioSource.__enter__ has run: the stream is open and the capture thread
\* started; the owner takes frames from the queue, then leaves the context.
SourceInit ==
    /\ feed \in Scripts \cup {FaultyFeed}
    /\ now = 1
    /\ state = "IDLE"
    /\ conversation_history = << >>
    /\ audio_queue = << >>
    /\ running = FALSE
    /\ processing_thread = 0
    /\ end_of_speech_timeout = feed.eos
    /\ max_phrase_duration = feed.max
    /\ mpc = "with"
    /\ opc = "none"
    /\ chunk = NoFrame
    /\ voice_buffer = << >>
    /\ speech_started_at = 0
    /\ silence_started_at = 0
    /\ join_started = 0
    /\ tasks = [i \in TaskIds |-> NoTask]
    /\ cpc = "read"
    /\ src_running = TRUE
    /\ in_stream = "open"
    /\ sink_queue = << >>
    /\ unfinished_tasks = 0
    /\ sink_running = FALSE
    /\ out_stream = "none"
    /\ ppc = "none"
    /\ pchunk = NoChunk
    /\ written = << >>
    /\ cl = [pc |-> "none", n |-> 0]
    /\ vad = NoVadCall
    /\ obs = [lp_count |-> 0, since_start |-> << >>, int_events |-> << >>,
              stop_calls |-> 0, at_stop |-> << >>, dev_calls |-> << >>,
              src_calls |-> << >>, read_failed |-> FALSE]

\* test_audio.py line 60: the owner takes the oldest frame from the queue.
QueueGet ==
    /\ mpc = "with"
    /\ audio_queue # << >>
    /\ audio_queue' = Tail(audio_queue)
    /\ UNCHANGED <<vad, now, state, conversation_history, running,
                   processing_thread, end_of_speech_timeout, max_phrase_duration,
                   mpc, loopVars, tasks, srcVars, sinkVars, cl, obs>>

SourceNext ==
    \/ Tick
    \/ QueueGet
    \/ SrcExitClear
    \/ SrcExitJoin
    \/ SrcExitStopStream
    \/ SrcExitClose
    \/ SrcExitTerminate

SourceSpec == SourceInit /\ [][SourceNext]_vars

\* --------------------------------------------------- VoicePipeline.stop
\* Lines 160-163: self._running.clear().
PipeStop ==
    /\ mpc = "started"
    /\ running
    /\ running' = FALSE
    /\ mpc' = "stop_join"
    /\ UNCHANGED <<vad, now, state, conversation_history, audio_queue,
                   processing_thread, end_of_speech_timeout, max_phrase_duration,
                   loopVars, tasks, srcVars, sinkVars, cl, obs>>

\* Lines 165-166: the orchestrator thread is joined for at most two
\* seconds; line 168 then enters AudioSink.__exit__.
PipeStopJoin ==
    /\ mpc = "stop_join"
    /\ \E timed_out \in BOOLEAN : timed_out \/ opc = "exited"
    /\ mpc' = "sink_exit"
    /\ cl' = [cl EXCEPT !.pc = "exit_test"]
    /\ UNCHANGED <<vad, now, state, conversation_history, audio_queue, running,
                   processing_thread, end_of_speech_timeout, max_phrase_duration,
                   loopVars, tasks, srcVars, sinkVars, obs>>

\* Line 171: self.state = VoiceState.IDLE, and stop() returns.
PipeStopSet ==
    /\ mpc = "stop_set"
    /\ state' = "IDLE"
    /\ mpc' = "stopped"
    /\ UNCHANGED <<vad, now, conversation_history, audio_queue, running,
                   processing_thread, end_of_speech_timeout, max_phrase_duration,
                   loopVars, tasks, srcVars, sinkVars, cl, obs>>

\* Lines 41 and 84-94: the poll interval passed with nothing to do and the
\* loop condition fails.
OrchExit ==
    /\ opc = "get"
    /\ audio_queue = << >>
    /\ ~running
    /\ ~(state = "LISTENING" /\ SilenceTimedOut(now, silence_started_at))
    /\ opc' = "exited"
    /\ UNCHANGED <<vad, now, pipeVars, chunk, voice_buffer, speech_started_at,
                   silence_started_at, join_started, tasks, srcVars, sinkVars,
                   cl, obs>>

\* The pipeline with a caller that may stop it at any moment, on devices
\* and a VAD that may fail.
StopNext ==
    \/ Next
    \/ OrchExit
    \/ PipeStop
    \/ PipeStopJoin
    \/ ExitTest
    \/ ExitJoin
    \/ ExitPut
    \/ ExitClear
    \/ ExitThreadJoin
    \/ ExitStopStream
    \/ ExitClose
    \/ ExitTerminate
    \/ SrcExitClear
    \/ SrcExitJoin
    \/ SrcExitStopStream
    \/ SrcExitClose
    \/ SrcExitTerminate
    \/ PipeStopSet

StopSpec == FaultInit /\ [][StopNext]_vars

\* -------------------------------------------------- WebRtcVAD.is_speech
\* The valid sizes without the 30 ms frame.
ValidChunkSizesNo30 == {BYTES_PER_10_MS, BYTES_PER_10_MS * 2}

\* Lines 13-17.
VALID_CHUNK_SIZES ==
    {BYTES_PER_10_MS, BYTES_PER_10_MS * 2, BYTES_PER_10_MS * 3}

VadUnchanged ==
    UNCHANGED <<now, pipeVars, loopVars, tasks, srcVars, sinkVars, cl, obs>>

\* Lines 47-48: the argument must be a bytes object.
VadTypeCheck ==
    /\ vad.pc = "type"
    /\ vad' = IF vad.is_bytes
              THEN [vad EXCEPT !.pc = "length"]
              ELSE [vad EXCEPT !.pc = "raised", !.outcome = "TypeError"]
    /\ VadUnchanged

\* Lines 53-57: the length must be one of the valid sizes.
VadLengthCheck ==
    /\ vad.pc = "length"
    /\ vad' = IF vad.len \notin VALID_CHUNK_SIZES
              THEN [vad EXCEPT !.pc = "raised", !.outcome = "ValueError"]
              ELSE [vad EXCEPT !.pc = "classify"]
    /\ VadUnchanged

\* Line 59: the underlying classifier is called and its answer returned.
VadClassify ==
    /\ vad.pc = "classify"
    /\ vad' = [vad EXCEPT !.pc = "returned",
                          !.classifier_calls = @ + 1,
                          !.outcome = IF vad.verdict THEN "True" ELSE "False"]
    /\ VadUnchanged

\* is_speech called once, on any argument.
VadInit ==
    /\ Constructed(AnyFeed)
    /\ \E is_bytes \in BOOLEAN, len \in 0..MaxLen, verdict \in BOOLEAN :
          vad = VadCall(is_bytes, len, verdict)

VadNext == VadTypeCheck \/ VadLengthCheck \/ VadClassify

VadSpec == VadInit /\ [][VadNext]_vars

\* -------------------------------------------------------- properties
\* The six edges of the turn-taking graph.
ValidEdges ==
    { <<"IDLE", "LISTENING">>, <<"LISTENING", "PROCESSING">>,
      <<"PROCESSING", "SPEAKING">>, <<"PROCESSING", "IDLE">>,
      <<"SPEAKING", "IDLE">>, <<"SPEAKING", "LISTENING">> }

\* C1: the state starts as Idle and every change of the state follows one
\* of the six edges of the graph, whatever the interleaving of orchestrator
\* steps, processing-thread steps and clock ticks.
C1_OnlyGraphEdges ==
    [][state' # state => <<state, state'>> \in ValidEdges]_vars

\* C2: when the orchestrator consumes a speech frame while the state is
\* Speaking (and only then) it runs the interruption: AudioSink.stop() is
\* invoked first, then the state becomes Listening, and the buffer that
\* results holds exactly the consumed frame.
C2_InterruptionOrder ==
    [][ /\ (opc = "get" /\ opc' # "get")
            => /\ state = "SPEAKING"
               /\ Head(audio_queue).kind = "speech"
               /\ chunk' = Head(audio_queue)
               /\ opc' = "stop_flag"
        /\ (opc # "get" /\ opc # "none" /\ opc' = "get")
            => /\ obs'.int_events = <<"stop", "listening">>
               /\ ~sink_running
               /\ state' = "LISTENING"
               /\ voice_buffer' = <<chunk>>
               /\ chunk.kind = "speech"
      ]_vars

\* C2 witness: an interruption has just completed.
C2_Witness ==
    /\ opc = "get"
    /\ obs.int_events = <<"stop", "listening">>
    /\ state = "LISTENING"
    /\ Len(voice_buffer) = 1
    /\ obs.stop_calls = 1

\* The scripted utterance has been delivered and consumed and the
\* orchestrator has nothing left to notice.
Quiescent ==
    /\ now = feed.until
    /\ opc = "get"
    /\ audio_queue = << >>
    /\ ~(state = "LISTENING" /\ SilenceTimedOut(now, silence_started_at))

C4_HandoffIsUtterance ==
    \A i \in TaskIds :
        tasks[i].pc = "stt" => tasks[i].audio_data = tasks[i].expected

\* C5 scenario: 5 speech frames, then silence frames that span exactly the
\* end-of-speech timeout.
C5_Scenario ==
    feed.mode = "script" /\ feed.speech = 5 /\ feed.silence = feed.eos

\* C5 as stated: the scenario gives exactly one Listening->Processing
\* transition and the buffer handed to the processing thread holds 5 frames.
C5_FiveFrameBuffer ==
    C5_Scenario =>
        /\ obs.lp_count <= 1
        /\ Quiescent => obs.lp_count = 1
        /\ \A i \in TaskIds :
              tasks[i].pc = "stt" => Len(tasks[i].audio_data) = 5

\* C5 as amended: the scenario gives exactly one Listening->Processing
\* transition, and the buffer handed over holds the 5 speech frames
\* followed by the silence frames consumed until the timeout was noticed
\* (at least one, at most all of them), in arrival order.
C5_SpeechAndSilenceBuffer ==
    C5_Scenario =>
        /\ obs.lp_count <= 1
        /\ Quiescent => obs.lp_count = 1
        /\ \A i \in TaskIds :
              tasks[i].pc = "stt" =>
                 LET b == tasks[i].audio_data IN
                 /\ Len(b) \in 6..(5 + feed.silence)
                 /\ \A k \in 1..Len(b) :
                       b[k] = Frame(k + 1, IF k <= 5 THEN "speech" ELSE "silence")

\* C5 witness: the hand-off of the scenario, with all the silence frames.
C5_Witness ==
    /\ C5_Scenario
    /\ \E i \in TaskIds :
          /\ tasks[i].pc = "stt"
          /\ Len(tasks[i].audio_data) = 5 + feed.silence
    /\ state = "PROCESSING"
    /\ obs.lp_count = 1

\* C6: in Listening, with only speech frames received since Listening was
\* entered, a speech frame consumed once more than max_phrase_duration has
\* passed since speech_started_at makes the state Processing and spawns a
\* processing thread with the buffered frames, that frame included; no
\* silence is needed.
C6_ForcedCutoff ==
    [][ ( /\ OrchFrame
          /\ state = "LISTENING"
          /\ Head(audio_queue).kind = "speech"
          /\ \A k \in 1..Len(obs.since_start) : obs.since_start[k].kind = "speech"
          /\ now - speech_started_at > max_phrase_duration )
        => /\ state' = "PROCESSING"
           /\ voice_buffer' = << >>
           /\ \E i \in TaskIds :
                 /\ tasks[i].pc = "none"
                 /\ tasks'[i].pc = "stt"
                 /\ tasks'[i].audio_data = Append(voice_buffer, Head(audio_queue))
                 /\ processing_thread' = i
      ]_vars

\* C6 witness: a phrase of speech frames only has just been handed off.
C6_Witness ==
    /\ state = "PROCESSING"
    /\ silence_started_at = 0
    /\ \E i \in TaskIds :
          /\ tasks[i].pc = "stt"
          /\ Len(tasks[i].audio_data) > max_phrase_duration
          /\ \A k \in 1..Len(tasks[i].audio_data) :
                tasks[i].audio_data[k].kind = "speech"

\* C7: a processing thread whose transcript is empty or whitespace-only
\* moves the state from Processing to Idle and exits: it has called STT only
\* (no LLM, no TTS, no play_chunk) and leaves the history and the sink as
\* they were.
C7_BlankTranscriptEndsTurn ==
    [][ \A i \in TaskIds :
          ( /\ tasks[i].pc = "text"
            /\ \A k \in 1..Len(tasks[i].user_text) : tasks[i].user_text[k] = " "
            /\ tasks'[i] # tasks[i] )
          => /\ state = "PROCESSING"
             /\ state' = "IDLE"
             /\ tasks'[i].pc = "done"
             /\ tasks'[i].calls = {"stt"}
             /\ conversation_history' = conversation_history
             /\ UNCHANGED sinkVars
      ]_vars

\* C8: a join() made right after stop() returns. Once the playback thread
\* has left its loop nothing marks a queue item done any more, so a client
\* waiting in join() then is released only if no item is left unfinished.
C8_JoinAfterStopReturns ==
    (cl.pc = "join" /\ ppc = "exited") => unfinished_tasks = 0

\* C9: at most one processing thread is alive at any moment.
C9_AtMostOneTask == Cardinality(AliveTasks) <= 1

\* C11: once the state has been set to Listening by an interruption while
\* a processing thread was running, no later step of that thread has a side
\* effect: it puts nothing on the sink, appends nothing to the history,
\* does not write the state and removes nothing from the frame channel.
C11_InterruptedTaskIsInert ==
    [][ \A i \in TaskIds :
          (tasks[i].interrupted /\ tasks'[i].pc # tasks[i].pc)
          => UNCHANGED <<state, conversation_history, sink_queue,
                         unfinished_tasks, audio_queue>>
      ]_vars

\* C12: when STT or the LLM/TTS stream raises, the thread ends at once with
\* the state Idle, it calls no collaborator afterwards (a finished thread
\* never moves again), and the orchestrator is left as it was: running, at
\* the same position, with its buffer, timers and the sink untouched.
C12_FailedTurnEndsIdle ==
    [][ \A i \in TaskIds :
          /\ (tasks[i].pc \in {"stt", "next"} /\ tasks'[i].pc = "done")
             => /\ state' = "IDLE"
                /\ tasks'[i].calls = tasks[i].calls
                /\ UNCHANGED <<running, loopVars, audio_queue,
                               conversation_history, sinkVars>>
          /\ tasks[i].pc = "done" => tasks'[i] = tasks[i]
      ]_vars

\* C12 witness: the first turn failed in STT and a later utterance has been
\* transcribed, answered and played to the end.
C12_Witness ==
    /\ tasks[1].pc = "done" /\ tasks[1].calls = {}
    /\ tasks[2].pc = "finish"
    /\ tasks[2].calls = {"stt", "llm", "tts", "play"}
    /\ obs.stop_calls = 0

\* C13: Listening does not persist once a timeout has run out, frames or
\* no frames: whenever the orchestrator waits on an empty frame channel in
\* Listening and the end-of-speech timeout or the phrase limit has passed,
\* its empty poll hands the buffer off (the state becomes Processing).
C13_ListeningIsBounded ==
    ( /\ state = "LISTENING"
      /\ opc = "get" /\ running
      /\ audio_queue = << >>
      /\ Spawned < MaxTasks
      /\ \/ PhraseTooLong(now, speech_started_at)
         \/ SilenceTimedOut(now, silence_started_at) )
    => ENABLED OrchPoll

\* C14: when a turn with a non-empty transcript completes without an
\* interruption, the step that sets Idle leaves a history that ends with
\* the user message holding the transcript followed by an assistant message.
C14_ReplyIsRecorded ==
    [][ \A i \in TaskIds :
          ( /\ tasks[i].pc = "finish" /\ tasks'[i].pc = "done"
            /\ ~tasks[i].stopped /\ ~tasks[i].interrupted )
          => LET h == conversation_history'
                 n == Len(h)
             IN /\ state' = "IDLE"
                /\ n >= 2
                /\ h[n - 1] = HumanMessage(tasks[i].user_text)
                /\ h[n].role = "assistant"
      ]_vars

\* C15 as stated: the history is changed only for turns that complete
\* without interruption, so while a thread is marked interrupted the history
\* holds nothing of its turn (only the messages of the other turns).
C15_InterruptedTurnLeavesNoTrace ==
    \A i \in TaskIds :
        tasks[i].interrupted =>
            Len(conversation_history) =
                Cardinality({j \in TaskIds \ {i} : "llm" \in tasks[j].calls})

\* C15 as amended: the history is changed only by the processing threads,
\* and each turn with a transcript that is not blank appends exactly its
\* user message, once, when it starts to speak; whether the turn is then
\* interrupted, fails or completes, nothing more is added or removed.
C15_OneUserMessagePerSpokenTurn ==
    /\ Len(conversation_history) =
           Cardinality({i \in TaskIds : "llm" \in tasks[i].calls})
    /\ \A k \in 1..Len(conversation_history) :
          /\ conversation_history[k].role = "human"
          /\ \E j \in 1..Len(conversation_history[k].content) :
                conversation_history[k].content[j] # " "

\* C15 witness: a turn has been interrupted and its user message is the
\* whole history.
C15_Witness ==
    /\ tasks[1].interrupted
    /\ state = "LISTENING"
    /\ Len(conversation_history) = 1
    /\ Spawned = 1

\* C16: the frame channel is a FIFO between the capture loop and the
\* orchestrator: it changes only when the capture loop appends the frame it
\* has read or when the orchestrator takes the oldest frame; no other step
\* removes a frame.
C16_FramesOnlyConsumedByOrchestrator ==
    [][ audio_queue' # audio_queue
        => \/ /\ now' = now + 1
              /\ Len(audio_queue') = Len(audio_queue) + 1
              /\ SubSeq(audio_queue', 1, Len(audio_queue)) = audio_queue
           \/ /\ OrchFrame
              /\ audio_queue' = Tail(audio_queue)
      ]_vars

\* C17: what the playback loop has written is an in-order subsequence of
\* the chunks passed to play_chunk, each unmodified and at most once; as
\* long as stop() has not been called it is a prefix of them.
C17_WrittenInOrder ==
    /\ \A k \in 1..Len(written) :
          \E n \in 1..cl.n : written[k] = AudioChunk(0, n)
    /\ \A j, k \in 1..Len(written) : j < k => written[j].n < written[k].n
    /\ obs.stop_calls = 0 =>
          \A k \in 1..Len(written) : written[k] = AudioChunk(0, k)

\* C17 witness: several chunks have been enqueued and written, no stop().
C17_Witness ==
    /\ obs.stop_calls = 0
    /\ cl.n >= 3
    /\ Len(written) = cl.n
    /\ ppc = "get"

\* C18: once a client has called stop(), no chunk that was in the playback
\* queue at that moment is ever written; all that can still be written is
\* the one chunk the playback loop had taken before, which is the earliest
\* chunk not yet written.
C18_StopDiscardsQueued ==
    obs.stop_calls > 0 =>
        /\ \A k \in 1..Len(written) : \A j \in 1..Len(obs.at_stop) :
              written[k] # obs.at_stop[j]
        /\ Len(written) + Len(obs.at_stop) <= cl.n
        /\ \A k \in 1..Len(written) : written[k] = AudioChunk(0, k)

\* C18 witness: stop() was called with chunks queued and one chunk being
\* written; that one was written, the queued ones were not, and the loop
\* has ended.
C18_Witness ==
    /\ cl.pc = "join"
    /\ ppc = "exited"
    /\ Len(obs.at_stop) >= 2
    /\ Len(written) >= 1
    /\ Len(written) + Len(obs.at_stop) = cl.n

\* C19: stop() run concurrently with play_chunk() calls of another thread.
\* Once stop() has returned the playback loop begins no further pass, and
\* no chunk is written to the device any more (every chunk of the run was
\* enqueued by a play_chunk() that completed before stop() returned).
C19_NoWriteAfterStopReturned ==
    [][ cl.pc \in {"join", "done"}
          => /\ written' = written
             /\ ppc' = "get" => ppc = "get"
      ]_vars

\* The device calls of a shutdown, in the order __exit__ makes them.
ShutdownCalls == <<"stop_stream", "close", "terminate">>

\* C20: when the sink context is exited without stop() having been called
\* (and without a device error), every chunk enqueued before the exit has
\* been written exactly once and in order by the time the stream is stopped
\* and closed, and stop_stream, close and terminate are each called exactly
\* once.
C20_GracefulShutdown ==
    obs.stop_calls = 0 =>
        /\ out_stream # "open"
              => written = [k \in 1..cl.n |-> AudioChunk(0, k)]
        /\ Len(obs.dev_calls) <= 3
        /\ obs.dev_calls = SubSeq(ShutdownCalls, 1, Len(obs.dev_calls))
        /\ cl.pc = "closed" => obs.dev_calls = ShutdownCalls

\* C20 witness: three chunks were enqueued, stop() was never called, and
\* __exit__ has returned with the device released.
C20_Witness ==
    /\ obs.stop_calls = 0
    /\ cl.pc = "closed"
    /\ cl.n >= 3
    /\ Len(written) = cl.n
    /\ out_stream = "closed"
    /\ obs.dev_calls = ShutdownCalls

\* C21: VoicePipeline.stop() on a running pipeline terminates and leaves
\* both devices closed, whatever happened before. The caller is never left
\* in the Queue.join() of AudioSink.__exit__ with items unfinished and the
\* playback thread (the only caller of task_done) gone, and when stop() has
\* returned both streams are closed.
C21_StopClosesBothDevices ==
    /\ ~(mpc = "sink_exit" /\ cl.pc = "exit_join"
            /\ ppc = "exited" /\ unfinished_tasks > 0)
    /\ mpc = "stopped" => in_stream = "closed" /\ out_stream = "closed"

\* C22: the orchestrator is never blocked without bound. The collaborators
\* (STT, LLM, TTS, play_chunk) are called only in steps of a processing
\* thread, in which the orchestrator does not move; and whatever the
\* processing threads are doing (blocked in a collaborator call or in
\* AudioSink.join()), the orchestrator can take the next frame as soon as
\* there is one, can run each statement of the interruption, and is released
\* from its wait for the thread once the timeout has passed.
C22_OrchestratorNeverBlocked ==
    /\ [][ \A i \in TaskIds :
             tasks'[i].calls # tasks[i].calls => UNCHANGED loopVars ]_vars
    /\ [] /\ ( /\ opc = "get"
               /\ audio_queue # << >>
               /\ (state # "LISTENING" \/ Spawned < MaxTasks) )
            => ENABLED OrchFrame
          /\ (opc = "stop_flag") => ENABLED OrchStopFlag
          /\ (opc = "stop_clear") => ENABLED OrchStopClear
          /\ (opc = "stop_put") => ENABLED OrchStopPut
          /\ (opc = "join" /\ now - join_started >= InterruptJoinTimeout)
            => ENABLED OrchJoin
          /\ (opc = "set") => ENABLED OrchSet

\* C22 witness: a processing thread is blocked for ever in AudioSink.join()
\* (the playback thread is gone, an item is unfinished), and the
\* orchestrator has since completed an interruption and consumed a further
\* frame in Listening.
C22_Witness ==
    /\ \E i \in TaskIds : tasks[i].pc = "join" /\ tasks[i].interrupted
    /\ ppc = "exited" /\ unfinished_tasks > 0
    /\ state = "LISTENING"
    /\ opc = "get"
    /\ Len(voice_buffer) >= 2

\* C23: the final check of the state and the write of Idle by a thread that
\* completes normally act as one atomic step: whenever a thread executes
\* the write of Idle that ends its turn, the state is still Speaking, so a
\* Listening set by a concurrent interruption is never overwritten.
C23_FinalCheckAndWriteAtomic ==
    [][ \A i \in TaskIds :
          (tasks[i].pc = "finish" /\ tasks'[i].pc = "done")
          => state = "SPEAKING"
      ]_vars

\* C24: when the VAD rejects the frame the orchestrator is classifying, the
\* error is raised out of the loop: the orchestrator does not go back to
\* waiting for the next frame.
C24_VadErrorLeavesLoop ==
    [][ ( /\ OrchFrame
          /\ Head(audio_queue).kind = "bad" )
        => opc' # "get"
      ]_vars

\* C25: is_speech accepts a bytes frame exactly when its length is 320,
\* 640 or 960 bytes: for those lengths it does not raise, it calls the
\* underlying classifier once and returns its answer; for every other
\* length it raises without calling the classifier.
C25_VadAcceptsExactlyValidLengths ==
    (vad.is_bytes /\ vad.pc \in {"returned", "raised"}) =>
        IF vad.len \in {320, 640, 960}
        THEN /\ vad.pc = "returned"
             /\ vad.classifier_calls = 1
             /\ vad.outcome = (IF vad.verdict THEN "True" ELSE "False")
        ELSE /\ vad.pc = "raised"
             /\ vad.outcome = "ValueError"
             /\ vad.classifier_calls = 0

\* C25 witness: a 960-byte frame the classifier takes for speech has been
\* classified.
C25_Witness ==
    /\ vad.is_bytes /\ vad.len = 960 /\ vad.verdict
    /\ vad.pc = "returned"
    /\ vad.outcome = "True"
    /\ vad.classifier_calls = 1

\* C26: after a device read error the capture loop has exited and never
\* puts another frame on the frame channel; the failing step touches nothing
\* but the capture thread (the pipeline, its orchestrator and the sink are
\* left as they were); and closing the source afterwards is not held up and
\* ends with the input stream stopped and closed and the library terminated.
C26_ReadErrorIsContained ==
    /\ [] /\ obs.read_failed => cpc = "exited"
          /\ (mpc = "src_join") => ENABLED SrcExitJoin
          /\ (mpc = "closed") => /\ in_stream = "closed"
                                 /\ obs.src_calls = ShutdownCalls
    /\ [][ /\ (~obs.read_failed /\ obs'.read_failed)
                => UNCHANGED <<pipeVars, loopVars, tasks, sinkVars,
                               src_running, in_stream>>
           /\ obs.read_failed
                => /\ obs'.read_failed
                   /\ Len(audio_queue') <= Len(audio_queue)
         ]_vars

\* C26 witness: a read failed while the source was running with a frame
\* still on the channel, and the source has since been closed.
C26_Witness ==
    /\ obs.read_failed
    /\ cpc = "exited"
    /\ mpc = "closed"
    /\ in_stream = "closed"
    /\ obs.src_calls = ShutdownCalls
    /\ audio_queue # << >>

\* C27: while the source is running, every non-empty buffer a device read
\* returns is put on the frame channel exactly once and in read order (the
\* frame read at a tick is appended at the tail at that tick, so the channel
\* holds frames in increasing order of their reads, none twice), and a read
\* that returns empty data puts nothing. With a scripted device the frame
\* appended is the one the script delivers at that tick.
C27_EveryBufferPutOnceInOrder ==
    /\ [] /\ \A j, k \in 1..Len(audio_queue) :
                j < k => audio_queue[j].t < audio_queue[k].t
          /\ \A k \in 1..Len(audio_queue) :
                audio_queue[k].kind \in FrameKinds /\ audio_queue[k].t <= now
    /\ [][ now' = now + 1 =>
             IF cpc = "read"
             THEN /\ \/ audio_queue' = audio_queue
                     \/ \E k \in FrameKinds :
                           audio_queue' = Append(audio_queue, Frame(now', k))
                  /\ (feed.mode = "script" /\ in_stream = "open") =>
                        audio_queue' =
                           IF ScriptKind(now') = "empty" THEN audio_queue
                           ELSE Append(audio_queue,
                                       Frame(now', ScriptKind(now')))
             ELSE audio_queue' = audio_queue
         ]_vars

\* C27 witness: the scripted device has delivered its speech frames and its
\* first two silence frames, which are on the channel in read order, the
\* earlier frames having been taken by the owner.
C27_Witness ==
    /\ feed.mode = "script"
    /\ src_running /\ cpc = "read" /\ mpc = "with"
    /\ now = feed.speech + 3
    /\ audio_queue = <<Frame(now - 1, "silence"), Frame(now, "silence")>>

\* C28: AudioSource.__exit__ runs its steps in this order: the capture loop
\* is signalled (the flag is cleared), the capture thread is waited for with
\* a bounded wait, then the stream is stopped, then closed, then the library
\* terminated, each exactly once; the wait never holds the close up, even
\* when the capture thread has not exited.
C28_SourceCloseOrder ==
    /\ mpc \in {"src_join", "src_stop_stream", "src_close", "src_terminate",
                "closed"} => ~src_running
    /\ mpc \in {"with", "src_join", "src_stop_stream"}
          => obs.src_calls = << >> /\ in_stream = "open"
    /\ (mpc = "src_join") => ENABLED SrcExitJoin
    /\ (mpc = "src_close")
          => obs.src_calls = <<"stop_stream">> /\ in_stream = "stopped"
    /\ (mpc = "src_terminate")
          => obs.src_calls = <<"stop_stream", "close">> /\ in_stream = "closed"
    /\ (mpc = "closed")
          => obs.src_calls = ShutdownCalls /\ in_stream = "closed"

\* C28 witness: the source has been closed while its capture thread was
\* still in a read.
C28_Witness ==
    /\ mpc = "closed"
    /\ cpc = "read"
    /\ ~src_running
    /\ in_stream = "closed"
    /\ obs.src_calls = ShutdownCalls

\* C29: the state goes from Listening to Processing only when, at that
\* moment, the phrase has lasted at least max_phrase_duration since
\* speech_started_at, or the frames consumed since then end with an unbroken
\* run of silence that began at least end_of_speech_timeout ago. A speech
\* frame ends the run, so earlier silences do not count.
C29_HandoffOnlyOnTimeout ==
    [][ \A i \in TaskIds :
          (state = "LISTENING" /\ state' = "PROCESSING"
             /\ tasks[i].pc = "none" /\ tasks'[i].pc = "stt")
          => LET seen == tasks'[i].expected IN
             \/ now - speech_started_at >= max_phrase_duration
             \/ \E k \in 1..Len(seen) :
                   /\ \A j \in k..Len(seen) : seen[j].kind = "silence"
                   /\ now - seen[k].t >= end_of_speech_timeout
      ]_vars

\* C29 witness: an utterance with two separate silences has been handed
\* off.
C29_Witness ==
    /\ state = "PROCESSING"
    /\ \E i \in TaskIds :
          /\ tasks[i].pc = "stt"
          /\ Len(tasks[i].expected) = 4
          /\ tasks[i].expected[1].kind = "speech"
          /\ tasks[i].expected[2].kind = "silence"
          /\ tasks[i].expected[3].kind = "speech"
          /\ tasks[i].expected[4].kind = "silence"

\* C30: in Listening, a frame handled when now - speech_started_at is
\* greater than or equal to max_phrase_duration (equality included) makes
\* the state Processing on that very frame, speech frame or not, silence
\* timer or not.
C30_CutoffAtEquality ==
    [][ ( /\ OrchFrame
          /\ state = "LISTENING"
          /\ Head(audio_queue).kind # "bad"
          /\ now - speech_started_at >= max_phrase_duration )
        => state' = "PROCESSING"
      ]_vars

\* C31: in Listening with the silence timer set, when the poll of the frame
\* channel finds it empty and end_of_speech_timeout has elapsed since the
\* timer was set, the orchestrator can do the hand-off at once, and the
\* hand-off is the one made on a frame: the state becomes Processing, a new
\* thread is started on a copy of the buffer, and the local buffer is
\* cleared, the timers and the sink being left as they were.
C31_EmptyPollHandsOff ==
    /\ [] ( ( /\ opc = "get"
              /\ audio_queue = << >>
              /\ state = "LISTENING"
              /\ silence_started_at > 0
              /\ now - silence_started_at >= end_of_speech_timeout
              /\ Spawned < MaxTasks )
            => ENABLED OrchPoll )
    /\ [][ OrchPoll
           => /\ state = "LISTENING" /\ silence_started_at > 0
              /\ now - silence_started_at >= end_of_speech_timeout
              /\ state' = "PROCESSING"
              /\ voice_buffer' = << >>
              /\ \E i \in TaskIds :
                    /\ tasks[i].pc = "none"
                    /\ tasks'[i].pc = "stt"
                    /\ tasks'[i].audio_data = voice_buffer
                    /\ processing_thread' = i
                    /\ \A j \in TaskIds \ {i} : tasks'[j] = tasks[j]
              /\ UNCHANGED <<speech_started_at, silence_started_at, sinkVars,
                             audio_queue>>
         ]_vars

\* C31 witness: one speech frame and one silence frame were buffered and
\* handed off before the phrase limit; a single silence frame cannot have
\* reached the timeout on arrival, so the hand-off was made on an empty poll.
C31_Witness ==
    /\ state = "PROCESSING"
    /\ opc = "get"
    /\ now - speech_started_at <= max_phrase_duration
    /\ \E i \in TaskIds :
          /\ tasks[i].pc = "stt"
          /\ Len(tasks[i].audio_data) = 2
          /\ tasks[i].audio_data[1].kind = "speech"
          /\ tasks[i].audio_data[2].kind = "silence"

\* C32: the utterance buffer is non-empty only while the state is
\* Listening: whenever the state is Idle, Processing or Speaking the
\* orchestrator's buffer is empty.
C32_BufferOnlyWhileListening ==
    state \in {"IDLE", "PROCESSING", "SPEAKING"} => voice_buffer = << >>

\* C33: when a processing thread ends its turn by moving the state from
\* Speaking to Idle, every chunk it passed to play_chunk has been written to
\* the output device, and the playback queue holds no chunk any more.
C33_TurnEndsAfterPlayback ==
    [][ \A i \in TaskIds :
          ( /\ tasks[i].pc = "finish" /\ tasks'[i].pc = "done"
            /\ state = "SPEAKING" /\ state' = "IDLE" )
          => /\ \A k \in 1..tasks[i].n :
                   \E j \in 1..Len(written) : written[j] = AudioChunk(i, k)
             /\ \A k \in 1..Len(sink_queue) : sink_queue[k] = Sentinel
             /\ pchunk = NoChunk
      ]_vars

C35_SinkUsableAfterInterruption ==
    \A i \in TaskIds :
        ( /\ AliveTasks = {i}
          /\ ~tasks[i].stopped /\ ~tasks[i].interrupted
          /\ opc = "get"
          /\ obs.stop_calls > 0 )
        => ~( /\ ppc = "exited"
              /\ \E k \in 1..Len(sink_queue) : sink_queue[k].task = i )

\* C36: every processing thread terminates. A thread is never left waiting
\* in AudioSink.join() with items of the playback queue unfinished and the
\* playback thread, the only caller of task_done(), gone.
C36_TaskNeverStuckInJoin ==
    \A i \in TaskIds :
        tasks[i].pc = "join" => ~(ppc = "exited" /\ unfinished_tasks > 0)

\* C37: AI audio goes to the output device only while the state is
\* Speaking: while the state is Idle or Listening the playback loop takes
\* no chunk from the playback queue and writes no chunk to the device.
C37_NoAudioOutsideSpeaking ==
    [][ (state = "IDLE" \/ state = "LISTENING")
          => /\ written' = written
             /\ ~(ppc = "get" /\ ppc' = "got")
      ]_vars

\* C38: once VoicePipeline.stop() has returned, the state stays Idle as far
\* as the processing threads are concerned: a step of a thread that was
\* still running leaves the state Idle, appends nothing to the history and
\* puts no chunk on the closed sink.
C38_QuietAfterStop ==
    [][ ( /\ mpc = "stopped"
          /\ \E i \in TaskIds : Alive(i) /\ tasks'[i].pc # tasks[i].pc )
        => /\ state' = "IDLE"
           /\ conversation_history' = conversation_history
           /\ Len(sink_queue') <= Len(sink_queue)
      ]_vars

\* C39: no device I/O after the device is closed: the playback thread
\* executes no write on an output stream that AudioSink.__exit__ has closed,
\* and no read of the capture thread completes on an input stream that
\* AudioSource.__exit__ has closed, even when the bounded wait for the
\* thread ran out before the thread had exited.
C39_NoIoAfterClose ==
    [][ /\ (ppc = "write" /\ ppc' # "write") => out_stream # "closed"
        /\ (cpc = "read" /\ now' = now + 1) => in_stream # "closed"
      ]_vars

\* C10: no chunk is played whose interruption check began after the
\* orchestrator's AudioSink.stop() had returned.
C10_NoPlayAfterStop ==
    \A i \in TaskIds : tasks[i].pc = "play" => ~tasks[i].late
====
